---- MODULE Spec2Model ----
(***************************************************************************)
(* Ticket admission of emision-tickets: TicketSerializer.validate and      *)
(* TicketSerializer.create (sales/serializers.py) run by concurrent        *)
(* request workers against the ticket ledger (sales/models.py) and the     *)
(* catalog (catalog/models.py).  The project sets neither ATOMIC_REQUESTS  *)
(* nor transaction.atomic, so every ORM call is its own committed          *)
(* statement and is one step of the model.                                 *)
(* The same workers serve PUT/PATCH and preview of TicketViewSet           *)
(* (sales/views.py), the cached summary report (sales/cache_service.py)    *)
(* and the calls of RateLimiter.is_allowed (core/rate_limiting.py).        *)
(***************************************************************************)
EXTENDS Integers, Sequences, FiniteSets

\* ---------------------------------------------------------------- bounds
MaxSubmissions == 2      \* submissions started in one behaviour
MaxTime == 2             \* last instant of the server clock (0..MaxTime)
TicksPerDay == 2         \* clock instants in one local calendar day
MaxRequests == 1         \* max_requests of the RateLimiter
MaxReports == 2          \* report requests started in one behaviour

\* ------------------------------------------------------------- the world
Workers == {1, 2}
Users == {"seller1"}

Zones == {"ZA", "ZB", "ZC", "ZD"}
DrawTypes == {"D1", "D2"}

N12 == <<"1", "2">>
N34 == <<"3", "4">>
N1a == <<"1", "a">>
N123 == <<"1", "2", "3">>
N77 == <<"7", "7">>
\* Two characters outside 0-9 for which str.isdigit() is true
\* (SUPERSCRIPT TWO, SUPERSCRIPT THREE).
NSup == <<"sup2", "sup3">>

Digits == {"0", "1", "2", "3", "4", "5", "6", "7", "8", "9"}

\* The characters str.isdigit() accepts: the decimal digits and the other
\* characters of Unicode numeric type Digit or Decimal.
IsDigitChars == Digits \cup {"sup2", "sup3"}

\* DrawSchedule rows: ZA and ZD have active schedules, ZB only an inactive
\* one, ZC none.  (zone, draw_type) is unique.
DrawSchedule ==
    { [zone |-> "ZA", draw_type |-> "D1", cutoff_time |-> 1, is_active |-> TRUE],
      [zone |-> "ZA", draw_type |-> "D2", cutoff_time |-> 1, is_active |-> TRUE],
      [zone |-> "ZD", draw_type |-> "D1", cutoff_time |-> 1, is_active |-> TRUE],
      [zone |-> "ZB", draw_type |-> "D1", cutoff_time |-> 0, is_active |-> FALSE] }

\* NumberLimit rows: (zone, draw_type, number) is unique.
NumberLimit ==
    { [zone |-> "ZA", draw_type |-> "D1", number |-> N12, max_pieces |-> 5],
      [zone |-> "ZA", draw_type |-> "D1", number |-> N77, max_pieces |-> 0],
      [zone |-> "ZA", draw_type |-> "D2", number |-> N12, max_pieces |-> 5],
      [zone |-> "ZD", draw_type |-> "D1", number |-> N12, max_pieces |-> 10],
      [zone |-> "ZB", draw_type |-> "D1", number |-> N12, max_pieces |-> 5],
      [zone |-> "ZC", draw_type |-> "D1", number |-> N12, max_pieces |-> 5] }

\* Raw request items: a JSON object with "number" and, optionally, "pieces".
It(n, p) == [number |-> n, pieces |-> p]
ItemLists ==
    { << >>,
      << It(N12, 3) >>,
      << It(N12, 2) >>,
      << It(N34, 2), It(N12, 3) >>,
      << It(N34, 2), It(N12, 6) >>,
      << It(N12, 1), It(N12, 2) >>,
      << It(N1a, 1) >>,
      << It(N123, 1) >>,
      << It(N12, -1) >>,
      << [number |-> N12] >> }

\* Requests sent to zones without an active schedule end at the schedule
\* lookup or before it; two item lists tell these two ends apart.
ClosedZoneItemLists == { << It(N12, 3) >>, << It(N123, 1) >> }

Requests ==
    [zone : {"ZA"}, draw_type : {"D1"}, user : Users, items : ItemLists]
    \cup [zone : {"ZB", "ZC"}, draw_type : {"D1"}, user : Users,
          items : ClosedZoneItemLists]

\* Requests that differ in the form of their items: a limit excess before
\* and after an invalid number, a zero piece count, a number of two
\* non-decimal digits, a number that is too long.
FormatItemLists ==
    { << It(N12, 3) >>,
      << It(N12, 6), It(N1a, 1) >>,
      << It(N1a, 1), It(N12, 6) >>,
      << It(N34, 0) >>,
      << It(NSup, 1) >>,
      << It(N123, 1) >> }

FormatRequests ==
    [zone : {"ZA", "ZC"}, draw_type : {"D1"}, user : Users,
     items : FormatItemLists]

\* Requests that differ in the key of the accumulated limit: two zones and
\* two draw types with their own limit for "12", a number without a limit
\* and a number whose limit is 0.
KeyRequests ==
    [zone : {"ZA"}, draw_type : {"D1"}, user : Users,
     items : { << It(N12, 3) >>, << It(N34, 9) >>, << It(N77, 1) >>,
               << [number |-> N77] >> }]
    \cup [zone : {"ZD"}, draw_type : {"D1"}, user : Users,
          items : { << It(N12, 3) >>, << It(N12, 6) >> }]
    \cup [zone : {"ZA"}, draw_type : {"D2"}, user : Users,
          items : { << It(N12, 3) >> }]

NoRequest ==
    [zone |-> "ZA", draw_type |-> "D1", user |-> "seller1", items |-> << >>]

\* RateLimiter (core/rate_limiting.py): the callers it tells apart and the
\* fixed windows of the clock; a window lasts one model day.
Identifiers == {"user_1", "ip_10.0.0.1"}
Windows == 0..(MaxTime \div TicksPerDay)
RateKeys == Identifiers \X Windows
NoKey == <<"", 0>>

\* No report payload.
NoReport ==
    [summary |-> << >>,
     totals |-> [total_tickets |-> 0, total_pieces |-> 0],
     pagination |-> [page |-> 0, page_size |-> 0, total_items |-> 0,
                     total_pages |-> 0]]

VARIABLES
    clock,       \* server clock: the current instant
    tickets,     \* Ticket table: sequence of rows, primary key = index
    titems,      \* TicketItem table: set of rows [ticket, number, pieces]
    pc,          \* per worker: position in the request
    req,         \* per worker: the request being served
    now,         \* per worker: validate's local `now`
    today,       \* per worker: validate's local `today`
    idx,         \* per worker: loop position in items (validate / create)
    tid,         \* per worker: id of the Ticket row create inserted (0 = none)
    total,       \* per worker: create's local `total`
    outcome,     \* per worker: result of the last request
    submitted,   \* number of requests received so far
    cache,       \* django.core.cache: key -> value, for the keys that are set
    report,      \* per worker: the report payload being built or returned
    asked,       \* per worker: the tickets committed when its report was asked
    cache_key,   \* per worker: is_allowed's local `cache_key`
    current_count, \* per worker: is_allowed's local `current_count`
    granted,     \* per rate-limit key: calls answered allowed so far
    report_count \* number of report requests received so far

\* The state of the ticket handlers' locals and of the ledger.
ledgerVars == <<tickets, titems, now, today, idx, tid, total>>

\* The cache and the state of the handlers that use it.
cacheVars == <<cache, report, asked, cache_key, current_count, granted,
               report_count>>

vars == <<clock, tickets, titems, pc, req, now, today, idx, tid, total,
          outcome, submitted, cache, report, asked, cache_key,
          current_count, granted, report_count>>


\* ------------------------------------------------------ pure definitions
\* timezone.localtime().time() and timezone.localdate() of an instant, and
\* the __date transform of a stored created_at.
LocalTime(t) == t % TicksPerDay
LocalDate(t) == t \div TicksPerDay

Get(item, key, default) == IF key \in DOMAIN item THEN item[key] ELSE default

IsDigitStr(s) == Len(s) > 0 /\ \A i \in 1..Len(s) : s[i] \in IsDigitChars

\* TicketItemSerializer, derived from the TicketItem model fields:
\* number is a required non-blank CharField(max_length=2), pieces an
\* optional IntegerField(min_value=0) (PositiveIntegerField with a default).
ItemFieldsValid(item) ==
    /\ "number" \in DOMAIN item
    /\ Len(item.number) > 0
    /\ Len(item.number) <= 2
    /\ ("pieces" \in DOMAIN item => item.pieces >= 0)

FieldsValid(r) == \A i \in 1..Len(r.items) : ItemFieldsValid(r.items[i])

\* validate, line 43
InvalidNumber(number) ==
    Len(number) = 0 \/ Len(number) # 2 \/ ~IsDigitStr(number)

\* The lookup without the is_active filter.
GetActiveSchedule_AnyRow(zone, draw_type) ==
    { s \in DrawSchedule : s.zone = zone /\ s.draw_type = draw_type }

\* DrawSchedule.objects.get(zone=, draw_type=, is_active=True)
GetActiveSchedule(zone, draw_type) ==
    { s \in DrawSchedule :
        s.zone = zone /\ s.draw_type = draw_type /\ s.is_active }

\* The comparison made strict.
PastCutoff_Strict(t, cutoff_time) == t > cutoff_time

\* validate, line 34
PastCutoff(t, cutoff_time) == t >= cutoff_time

\* DoesNotExist swallowed instead of turned into a ValidationError.
ScheduleOutcome_NoRaise(zone, draw_type, t) ==
    LET rows == { s \in DrawSchedule :
                    s.zone = zone /\ s.draw_type = draw_type /\ s.is_active }
    IN IF rows = {} THEN "ok"
       ELSE IF (CHOOSE s \in rows : TRUE).cutoff_time <= t
            THEN "past_cutoff"
            ELSE "ok"

\* validate, lines 29-35: the result of the schedule and cutoff checks.
ScheduleOutcome(zone, draw_type, t) ==
    LET rows == GetActiveSchedule(zone, draw_type) IN
    IF rows = {} THEN "no_schedule"
    ELSE IF PastCutoff(t, (CHOOSE s \in rows : TRUE).cutoff_time)
         THEN "past_cutoff"
         ELSE "ok"

\* validate, line 37: limits = {l.number: l.max_pieces ...}
Limits(zone, draw_type) ==
    { l \in NumberLimit : l.zone = zone /\ l.draw_type = draw_type }

HasLimit(zone, draw_type, number) ==
    \E l \in Limits(zone, draw_type) : l.number = number

MaxAllowed(zone, draw_type, number) ==
    (CHOOSE l \in Limits(zone, draw_type) : l.number = number).max_pieces

RECURSIVE SumPieces(_)
SumPieces(S) ==
    IF S = {} THEN 0
    ELSE LET r == CHOOSE r \in S : TRUE IN r.pieces + SumPieces(S \ {r})

\* The number filter of the aggregate dropped.
Sold_AllNumbers(tk, ti, zone, draw_type, day, number) ==
    SumPieces({ row \in ti :
                  /\ tk[row.ticket].zone = zone
                  /\ tk[row.ticket].draw_type = draw_type
                  /\ LocalDate(tk[row.ticket].created_at) = day })

\* The aggregate without the ticket__zone filter.
Sold_AnyZone(tk, ti, zone, draw_type, day, number) ==
    SumPieces({ i \in ti :
        /\ i.number = number
        /\ tk[i.ticket].draw_type = draw_type
        /\ LocalDate(tk[i.ticket].created_at) = day })

\* The aggregate without the ticket__created_at__date filter.
Sold_AllDays(tk, ti, zone, draw_type, day, number) ==
    SumPieces({ i \in ti :
        /\ i.number = number
        /\ tk[i.ticket].zone = zone
        /\ tk[i.ticket].draw_type = draw_type })

\* validate, lines 47-57: Sum('pieces') over today's items of the key.
Sold(tk, ti, zone, draw_type, day, number) ==
    SumPieces({ i \in ti :
        /\ i.number = number
        /\ tk[i.ticket].zone = zone
        /\ tk[i.ticket].draw_type = draw_type
        /\ LocalDate(tk[i.ticket].created_at) = day })

\* validate, line 42
RawPieces(item) == Get(item, "pieces", 0)

\* The cap itself refused.
OverLimit_AtCap(sold, pieces, max_allowed) == sold + pieces >= max_allowed

\* validate, line 58
OverLimit(sold, pieces, max_allowed) == sold + pieces > max_allowed

\* create, line 69: TicketItem.objects.create(ticket=ticket, **item);
\* the model default fills an omitted pieces.
NewItem(t, item) ==
    [ticket |-> t, number |-> item.number, pieces |-> Get(item, "pieces", 1)]

\* The unique constraint on (ticket, number) not enforced.
UniqueViolation_Never(ti, row) == FALSE

\* unique_together = ('ticket', 'number')
UniqueViolation(ti, row) ==
    \E i \in ti : i.ticket = row.ticket /\ i.number = row.number

\* The total counting rows instead of pieces.
AddToTotal_CountRows(tot, row) == tot + 1

\* create, line 70
AddToTotal(tot, row) == tot + row.pieces

ItemsOf(ti, t) == { i \in ti : i.ticket = t }

\* ------------------------------------------------------------------ Init
Init ==
    /\ clock = 0
    /\ tickets = << >>
    /\ titems = {}
    /\ pc = [w \in Workers |-> "idle"]
    /\ req = [w \in Workers |-> NoRequest]
    /\ now = [w \in Workers |-> 0]
    /\ today = [w \in Workers |-> 0]
    /\ idx = [w \in Workers |-> 0]
    /\ tid = [w \in Workers |-> 0]
    /\ total = [w \in Workers |-> 0]
    /\ outcome = [w \in Workers |-> "none"]
    /\ submitted = 0
    /\ cache = [k \in {} |-> 0]
    /\ report = [w \in Workers |-> NoReport]
    /\ asked = [w \in Workers |-> {}]
    /\ cache_key = [w \in Workers |-> NoKey]
    /\ current_count = [w \in Workers |-> 0]
    /\ granted = [k \in RateKeys |-> 0]
    /\ report_count = 0

\* --------------------------------------------------------------- actions
\* The server clock advances.
Tick ==
    /\ clock < MaxTime
    /\ clock' = clock + 1
    /\ UNCHANGED cacheVars
    /\ UNCHANGED <<tickets, titems, pc, req, now, today, idx, tid, total,
                   outcome, submitted>>

\* A worker that is not serving a request.  Workers are interchangeable, so
\* a new request goes to the first free one.
Free(w) == pc[w] \in {"idle", "done"}

\* The request ends with result o; the locals of validate and create are gone.
Return(w, o) ==
    /\ pc' = [pc EXCEPT ![w] = "done"]
    /\ outcome' = [outcome EXCEPT ![w] = o]
    /\ now' = [now EXCEPT ![w] = 0]
    /\ today' = [today EXCEPT ![w] = 0]
    /\ idx' = [idx EXCEPT ![w] = 0]
    /\ total' = [total EXCEPT ![w] = 0]

\* POST /api/sales/tickets/: the request is deserialised and its fields are
\* validated before validate() runs.
Submit(w, r) ==
    /\ Free(w)
    /\ \A v \in Workers : Free(v) => w <= v
    /\ submitted < MaxSubmissions
    /\ submitted' = submitted + 1
    /\ req' = [req EXCEPT ![w] = r]
    /\ tid' = [tid EXCEPT ![w] = 0]
    /\ IF FieldsValid(r)
       THEN /\ pc' = [pc EXCEPT ![w] = "schedule"]
            /\ outcome' = [outcome EXCEPT ![w] = "none"]
            /\ UNCHANGED <<now, today, idx, total>>
       ELSE Return(w, "field_error")
    /\ UNCHANGED cacheVars
    /\ UNCHANGED <<clock, tickets, titems>>

\* validate, lines 29-35
CheckSchedule(w) ==
    /\ pc[w] = "schedule"
    /\ LET res == ScheduleOutcome(req[w].zone, req[w].draw_type,
                                    LocalTime(clock)) IN
       IF res = "ok"
       THEN /\ pc' = [pc EXCEPT ![w] = "limits"]
            /\ now' = [now EXCEPT ![w] = LocalTime(clock)]
            /\ UNCHANGED <<outcome, today, idx, total>>
       ELSE Return(w, res)
    /\ UNCHANGED cacheVars
    /\ UNCHANGED <<clock, tickets, titems, req, tid, submitted>>

\* validate, lines 37-39: the limits are read and `today` is taken.
ReadLimits(w) ==
    /\ pc[w] = "limits"
    /\ today' = [today EXCEPT ![w] = LocalDate(clock)]
    /\ idx' = [idx EXCEPT ![w] = 1]
    /\ pc' = [pc EXCEPT ![w] =
                IF Len(req[w].items) = 0 THEN "create" ELSE "items"]
    /\ UNCHANGED cacheVars
    /\ UNCHANGED <<clock, tickets, titems, req, now, tid, total, outcome,
                   submitted>>

\* Every number of the list checked before any limit is looked at.
ItemOutcome_FormatFirst(r, i, day, tk, ti) ==
    IF \E j \in 1..Len(r.items) : InvalidNumber(r.items[j].number)
    THEN "invalid_number"
    ELSE IF /\ HasLimit(r.zone, r.draw_type, r.items[i].number)
            /\ OverLimit(Sold(tk, ti, r.zone, r.draw_type, day,
                               r.items[i].number),
                         RawPieces(r.items[i]),
                         MaxAllowed(r.zone, r.draw_type, r.items[i].number))
         THEN "limit_exceeded"
         ELSE "ok"

\* A number without a NumberLimit row treated as a limit of 0.
ItemOutcome_DefaultZero(r, i, day, tk, ti) ==
    IF InvalidNumber(r.items[i].number) THEN "invalid_number"
    ELSE IF OverLimit(Sold(tk, ti, r.zone, r.draw_type, day,
                           r.items[i].number),
                      RawPieces(r.items[i]),
                      IF HasLimit(r.zone, r.draw_type, r.items[i].number)
                      THEN MaxAllowed(r.zone, r.draw_type, r.items[i].number)
                      ELSE 0)
         THEN "limit_exceeded"
         ELSE "ok"

\* validate, lines 41-61: what one iteration of the loop decides for item i
\* of request r, with `today` = day, against the ledger (tk, ti).
ItemOutcome(r, i, day, tk, ti) ==
    LET item == r.items[i]
        number == item.number
        pieces == RawPieces(item)
    IN IF InvalidNumber(number) THEN "invalid_number"
       ELSE IF /\ HasLimit(r.zone, r.draw_type, number)
               /\ OverLimit(Sold(tk, ti, r.zone, r.draw_type, day, number),
                            pieces,
                            MaxAllowed(r.zone, r.draw_type, number))
            THEN "limit_exceeded"
            ELSE "ok"

\* validate, lines 40-62: one iteration of the loop over the raw items.
ValidateItem(w) ==
    /\ pc[w] = "items"
    /\ LET res == ItemOutcome(req[w], idx[w], today[w], tickets, titems) IN
       IF res = "ok"
       THEN /\ idx' = [idx EXCEPT ![w] = @ + 1]
            /\ pc' = [pc EXCEPT ![w] =
                 IF idx[w] = Len(req[w].items) THEN "create" ELSE "items"]
            /\ UNCHANGED <<outcome, now, today, total>>
       ELSE Return(w, res)
    /\ UNCHANGED cacheVars
    /\ UNCHANGED <<clock, tickets, titems, req, tid, submitted>>

\* The seller taken from the request body when it names one.
TicketUser_FromBody(r) == Get(r, "body_user", r.user)

\* perform_create: serializer.save(user=self.request.user); a 'user' of the
\* request body is dropped with the read-only fields.
TicketUser(r) == r.user

\* BaseSerializer.save() as the viewset calls it: update() when the
\* serializer was built on an instance (PUT, PATCH), create() otherwise.
IsUpdate(r) == "target" \in DOMAIN r

\* The Ticket rows whose creating submission is no longer running create.
Committed ==
    { t \in 1..Len(tickets) :
        ~ \E w \in Workers :
              /\ tid[w] = t
              /\ ~IsUpdate(req[w])
              /\ pc[w] \in {"insert", "save"} }

\* create, lines 65-67: Ticket.objects.create(**validated_data); created_at
\* is auto_now_add and user comes from perform_create.
CreateTicket(w) ==
    /\ pc[w] = "create"
    /\ ~IsUpdate(req[w])
    /\ tickets' = Append(tickets,
          [zone |-> req[w].zone, draw_type |-> req[w].draw_type,
           user |-> TicketUser(req[w]), created_at |-> clock,
           total_pieces |-> 0])
    /\ tid' = [tid EXCEPT ![w] = Len(tickets) + 1]
    /\ total' = [total EXCEPT ![w] = 0]
    /\ idx' = [idx EXCEPT ![w] = 1]
    /\ pc' = [pc EXCEPT ![w] =
                IF Len(req[w].items) = 0 THEN "save" ELSE "insert"]
    /\ UNCHANGED cacheVars
    /\ UNCHANGED <<clock, titems, req, now, today, outcome, submitted>>

\* create, lines 68-70: one iteration of the loop over the validated items.
\* A second row for the same (ticket, number) raises IntegrityError, which
\* nothing catches.
CreateItem(w) ==
    /\ pc[w] = "insert"
    /\ LET row == NewItem(tid[w], req[w].items[idx[w]]) IN
       IF UniqueViolation(titems, row)
       THEN /\ Return(w, "integrity_error")
            /\ UNCHANGED titems
       ELSE /\ titems' = titems \cup {row}
            /\ total' = [total EXCEPT ![w] = AddToTotal(@, row)]
            /\ idx' = [idx EXCEPT ![w] = @ + 1]
            /\ pc' = [pc EXCEPT ![w] =
                 IF idx[w] = Len(req[w].items) THEN "save" ELSE "insert"]
            /\ UNCHANGED <<outcome, now, today>>
    /\ UNCHANGED cacheVars
    /\ UNCHANGED <<clock, tickets, req, tid, submitted>>

\* create, lines 71-73: ticket.save(update_fields=['total_pieces'])
SaveTotal(w) ==
    /\ pc[w] = "save"
    /\ tickets' = [tickets EXCEPT ![tid[w]].total_pieces = total[w]]
    /\ Return(w, "created")
    /\ UNCHANGED cacheVars
    /\ UNCHANGED <<clock, titems, req, tid, submitted>>

Next ==
    \/ Tick
    \/ \E w \in Workers, r \in Requests : Submit(w, r)
    \/ \E w \in Workers : CheckSchedule(w)
    \/ \E w \in Workers : ReadLimits(w)
    \/ \E w \in Workers : ValidateItem(w)
    \/ \E w \in Workers : CreateTicket(w)
    \/ \E w \in Workers : CreateItem(w)
    \/ \E w \in Workers : SaveTotal(w)

Spec == Init /\ [][Next]_vars

\* Submissions processed one at a time: a request is received only when no
\* other request is being served.
SubmitAlone(w, r) ==
    /\ \A v \in Workers : Free(v)
    /\ Submit(w, r)

NextSeq ==
    \/ Tick
    \/ \E w \in Workers, r \in Requests : SubmitAlone(w, r)
    \/ \E w \in Workers : CheckSchedule(w)
    \/ \E w \in Workers : ReadLimits(w)
    \/ \E w \in Workers : ValidateItem(w)
    \/ \E w \in Workers : CreateTicket(w)
    \/ \E w \in Workers : CreateItem(w)
    \/ \E w \in Workers : SaveTotal(w)

SpecSeq == Init /\ [][NextSeq]_vars

NextFormat ==
    \/ Tick
    \/ \E w \in Workers, r \in FormatRequests : Submit(w, r)
    \/ \E w \in Workers : CheckSchedule(w)
    \/ \E w \in Workers : ReadLimits(w)
    \/ \E w \in Workers : ValidateItem(w)
    \/ \E w \in Workers : CreateTicket(w)
    \/ \E w \in Workers : CreateItem(w)
    \/ \E w \in Workers : SaveTotal(w)

SpecFormat == Init /\ [][NextFormat]_vars

NextKeys ==
    \/ Tick
    \/ \E w \in Workers, r \in KeyRequests : Submit(w, r)
    \/ \E w \in Workers : CheckSchedule(w)
    \/ \E w \in Workers : ReadLimits(w)
    \/ \E w \in Workers : ValidateItem(w)
    \/ \E w \in Workers : CreateTicket(w)
    \/ \E w \in Workers : CreateItem(w)
    \/ \E w \in Workers : SaveTotal(w)

SpecKeys == Init /\ [][NextKeys]_vars

\* ----------------------------------------------- PUT, PATCH and preview
\* TicketViewSet is a ModelViewSet: besides create it serves update (PUT)
\* and partial_update (PATCH) through the same TicketSerializer, whose
\* update() is the one of ModelSerializer.
Anonymous == "anon"

\* A create request whose body also names a seller.
BodyUserRequests ==
    { [zone |-> "ZA", draw_type |-> "D1", user |-> "seller1",
       items |-> << It(N12, 3) >>, body_user |-> "seller2"],
      [zone |-> "ZD", draw_type |-> "D1", user |-> "seller2",
       items |-> << It(N12, 6) >>] }

\* A request without credentials.
AnonymousRequests ==
    { [zone |-> "ZA", draw_type |-> "D1", user |-> Anonymous,
       items |-> << It(N12, 3) >>] }

\* PUT / PATCH of ticket `target`.  zone and draw_type are present when the
\* body carries them; items is initial_data.get('items', []) and has_items
\* tells whether the body carried the key; body_user and total_pieces are
\* read-only fields the body may carry.
UpdateRequests ==
    { [target |-> 1, partial |-> TRUE, user |-> "seller2",
       zone |-> "ZD", draw_type |-> "D1", items |-> << >>,
       has_items |-> FALSE, body_user |-> "seller2", total_pieces |-> 9],
      [target |-> 1, partial |-> TRUE, user |-> "seller2",
       zone |-> "ZD", items |-> << >>, has_items |-> FALSE],
      [target |-> 1, partial |-> FALSE, user |-> "seller2",
       zone |-> "ZD", draw_type |-> "D1", items |-> << It(N12, 1) >>,
       has_items |-> TRUE],
      [target |-> 1, partial |-> FALSE, user |-> "seller2",
       zone |-> "ZD", draw_type |-> "D1", items |-> << >>,
       has_items |-> FALSE],
      [target |-> 2, partial |-> TRUE, user |-> "seller1",
       zone |-> "ZA", draw_type |-> "D1", items |-> << >>,
       has_items |-> FALSE] }

PreviewRequests ==
    { [zone |-> "ZA", draw_type |-> "D1", user |-> "seller1",
       items |-> << It(N12, 9) >>],
      [zone |-> "ZA", draw_type |-> "D1", user |-> "seller1",
       items |-> << >>] }

\* IsSellerOrAdmin.has_permission
HasPermission(r) == r.user # Anonymous

\* Field validation of an update: every field is required unless the
\* request is partial; the items that are present are validated as on
\* create.
UpdateFieldsValid(r) ==
    /\ (~r.partial =>
           "zone" \in DOMAIN r /\ "draw_type" \in DOMAIN r /\ r.has_items)
    /\ FieldsValid(r)

\* validate, lines 25-26: data['zone'], data['draw_type']
ValidateKeyError(r) == ~("zone" \in DOMAIN r /\ "draw_type" \in DOMAIN r)

\* A request refused by the permission class before any handler runs.
Denied(w, r) ==
    /\ Free(w)
    /\ \A v \in Workers : Free(v) => w <= v
    /\ submitted < MaxSubmissions
    /\ ~HasPermission(r)
    /\ submitted' = submitted + 1
    /\ req' = [req EXCEPT ![w] = r]
    /\ tid' = [tid EXCEPT ![w] = 0]
    /\ Return(w, "forbidden")
    /\ UNCHANGED cacheVars
    /\ UNCHANGED <<clock, tickets, titems>>

\* PUT / PATCH /api/sales/tickets/<target>/ is received.
SubmitUpdate(w, r) ==
    /\ Free(w)
    /\ \A v \in Workers : Free(v) => w <= v
    /\ submitted < MaxSubmissions
    /\ HasPermission(r)
    /\ submitted' = submitted + 1
    /\ req' = [req EXCEPT ![w] = r]
    /\ tid' = [tid EXCEPT ![w] = 0]
    /\ pc' = [pc EXCEPT ![w] = "get_object"]
    /\ outcome' = [outcome EXCEPT ![w] = "none"]
    /\ UNCHANGED cacheVars
    /\ UNCHANGED <<clock, tickets, titems, now, today, idx, total>>

\* UpdateModelMixin.update: instance = self.get_object() loads the row
\* (404 when there is none), then the fields are validated and validate()
\* starts.  total keeps the total_pieces of the loaded instance.
GetObject(w) ==
    /\ pc[w] = "get_object"
    /\ IF req[w].target \notin 1..Len(tickets)
       THEN Return(w, "not_found") /\ UNCHANGED tid
       ELSE IF ~UpdateFieldsValid(req[w])
       THEN Return(w, "field_error") /\ UNCHANGED tid
       ELSE IF ValidateKeyError(req[w])
       THEN Return(w, "server_error") /\ UNCHANGED tid
       ELSE /\ tid' = [tid EXCEPT ![w] = req[w].target]
            /\ total' = [total EXCEPT ![w] =
                            tickets[req[w].target].total_pieces]
            /\ pc' = [pc EXCEPT ![w] = "schedule"]
            /\ UNCHANGED <<outcome, now, today, idx>>
    /\ UNCHANGED cacheVars
    /\ UNCHANGED <<clock, tickets, titems, req, submitted>>

\* ModelSerializer.update: nested writes are refused with an
\* AssertionError; otherwise every validated field is set on the loaded
\* instance and instance.save() writes all its columns.
UpdateInstance(w) ==
    /\ pc[w] = "create"
    /\ IsUpdate(req[w])
    /\ IF req[w].has_items
       THEN Return(w, "server_error") /\ UNCHANGED tickets
       ELSE /\ tickets' = [tickets EXCEPT ![tid[w]] =
                  [@ EXCEPT !.zone = req[w].zone,
                            !.draw_type = req[w].draw_type,
                            !.total_pieces = total[w]]]
            /\ Return(w, "updated")
    /\ UNCHANGED cacheVars
    /\ UNCHANGED <<clock, titems, req, tid, submitted>>

\* POST /api/sales/tickets/preview/ (views.py, lines 41-66): renders a
\* PDF from the request body and persists nothing.
Preview(w, r) ==
    /\ Free(w)
    /\ \A v \in Workers : Free(v) => w <= v
    /\ submitted < MaxSubmissions
    /\ HasPermission(r)
    /\ submitted' = submitted + 1
    /\ req' = [req EXCEPT ![w] = r]
    /\ tid' = [tid EXCEPT ![w] = 0]
    /\ Return(w, IF Len(r.items) = 0 THEN "incomplete" ELSE "preview")
    /\ UNCHANGED cacheVars
    /\ UNCHANGED <<clock, tickets, titems>>

NextUpdate ==
    \/ Tick
    \/ \E w \in Workers, r \in BodyUserRequests : Submit(w, r)
    \/ \E w \in Workers, r \in AnonymousRequests : Denied(w, r)
    \/ \E w \in Workers, r \in UpdateRequests : SubmitUpdate(w, r)
    \/ \E w \in Workers, r \in PreviewRequests : Preview(w, r)
    \/ \E w \in Workers : GetObject(w)
    \/ \E w \in Workers : CheckSchedule(w)
    \/ \E w \in Workers : ReadLimits(w)
    \/ \E w \in Workers : ValidateItem(w)
    \/ \E w \in Workers : CreateTicket(w)
    \/ \E w \in Workers : UpdateInstance(w)
    \/ \E w \in Workers : CreateItem(w)
    \/ \E w \in Workers : SaveTotal(w)

SpecUpdate == Init /\ [][NextUpdate]_vars

\* ------------------------------------------------------------ the cache
\* cache.get(key, default) and cache.set(key, value, timeout) of
\* django.core.cache.
CacheGet(c, k, default) == IF k \in DOMAIN c THEN c[k] ELSE default

CacheSet(c, k, v) ==
    [x \in DOMAIN c \cup {k} |-> IF x = k THEN v ELSE c[x]]

\* --------------------------------------------------------- rate limiting
\* RateLimiter._get_cache_key: the key names the identifier and the
\* current window, int(time.time() // window_seconds).
GetCacheKey(identifier, t) == <<identifier, t \div TicksPerDay>>

\* RateLimiter.is_allowed, lines 36-57, called by RateLimitMiddleware for a
\* request of `identifier`: the key is made, the counter is read, and the
\* call is denied when the counter has reached max_requests.
IsAllowed(w, identifier) ==
    /\ Free(w)
    /\ \A v \in Workers : Free(v) => w <= v
    /\ submitted < MaxSubmissions
    /\ submitted' = submitted + 1
    /\ LET k == GetCacheKey(identifier, clock)
           c == CacheGet(cache, k, 0) IN
       /\ cache_key' = [cache_key EXCEPT ![w] = k]
       /\ current_count' = [current_count EXCEPT ![w] = c]
       /\ IF c >= MaxRequests
          THEN Return(w, "denied")
          ELSE /\ pc' = [pc EXCEPT ![w] = "set_count"]
               /\ outcome' = [outcome EXCEPT ![w] = "none"]
               /\ UNCHANGED <<now, today, idx, total>>
    /\ UNCHANGED <<clock, tickets, titems, req, tid, cache, report, asked,
                   granted, report_count>>

\* RateLimiter.is_allowed, lines 60-70: the counter read earlier, plus one,
\* is written back and the call is allowed.
SetCount(w) ==
    /\ pc[w] = "set_count"
    /\ cache' = CacheSet(cache, cache_key[w], current_count[w] + 1)
    /\ granted' = [granted EXCEPT ![cache_key[w]] = @ + 1]
    /\ Return(w, "allowed")
    /\ UNCHANGED <<clock, tickets, titems, req, tid, submitted, report,
                   asked, cache_key, current_count, report_count>>

NextRate ==
    \/ Tick
    \/ \E w \in Workers, i \in Identifiers : IsAllowed(w, i)
    \/ \E w \in Workers : SetCount(w)

SpecRate == Init /\ [][NextRate]_vars

\* ---------------------------------------------------------------- reports
\* GET /api/sales/tickets/reports/summary/ (views.py, reports_summary) and
\* ReportCacheService (cache_service.py).
\* Zone.name is unique; DrawType.name is not, and the two draw types of
\* this catalog have the same name.
ZoneName(z) == z
DrawTypeName(d) == "Diaria"

GroupBys == {"zone", "draw_type", "user"}
PageSizes == {1, 2}

\* The filter sets: zone and user are the sets of ids of the
\* comma-separated parameter, empty when the parameter is absent;
\* start_date is present when the parameter is.
FilterSets ==
    [zone : {{}, {"ZA"}}, user : {{}, {"seller1"}}]
    \cup [zone : {{}}, user : {{}}, start_date : {1}]

\* _generate_summary_report, lines 111-128: qs = Ticket.objects.filter(...)
Matches(row, f) ==
    /\ ("start_date" \in DOMAIN f =>
           LocalDate(row.created_at) >= f.start_date)
    /\ (f.zone # {} => row.zone \in f.zone)
    /\ (f.user # {} => row.user \in f.user)

Filtered(tk, f) == { t \in 1..Len(tk) : Matches(tk[t], f) }

\* lines 131-139: label_field
Label(row, group_by) ==
    CASE group_by = "zone" -> ZoneName(row.zone)
      [] group_by = "draw_type" -> DrawTypeName(row.draw_type)
      [] OTHER -> row.user

\* Sum('total_pieces') over the tickets ids
RECURSIVE SumTotalPieces(_, _)
SumTotalPieces(tk, ids) ==
    IF ids = {} THEN 0
    ELSE LET t == CHOOSE t \in ids : TRUE IN
         tk[t].total_pieces + SumTotalPieces(tk, ids \ {t})

\* lines 142-155: values(label).annotate(Count('id'), Sum('total_pieces'))
Grouped(tk, f, group_by) ==
    { [group |-> l,
       total_tickets |->
           Cardinality({ t \in Filtered(tk, f) : Label(tk[t], group_by) = l }),
       total_pieces |->
           SumTotalPieces(tk, { t \in Filtered(tk, f) :
                                  Label(tk[t], group_by) = l })] :
      l \in { Label(tk[t], group_by) : t \in Filtered(tk, f) } }

\* The rows as a list, in the order the database returns them
\* (order_by() asks for none).
RECURSIVE AsList(_)
AsList(rows) ==
    IF rows = {} THEN << >>
    ELSE LET x == CHOOSE x \in rows : TRUE IN
         << x >> \o AsList(rows \ {x})

Result(tk, f, group_by) == AsList(Grouped(tk, f, group_by))

\* The last, partly filled page not counted.
TotalPages_Floor(total_items, page_size) == total_items \div page_size

\* line 159
TotalPages(total_items, page_size) ==
    (total_items + page_size - 1) \div page_size

\* lines 160-162: result[start:end]
Paged(result, page, page_size) ==
    LET start == (page - 1) * page_size
        end == start + page_size IN
    SubSeq(result, start + 1,
           IF end < Len(result) THEN end ELSE Len(result))

\* lines 165-169
Totals(tk, f) ==
    [total_tickets |-> Cardinality(Filtered(tk, f)),
     total_pieces |-> SumTotalPieces(tk, Filtered(tk, f))]

\* get_summary_report, lines 65-77: the key names every parameter but
\* force_refresh.
ReportKey(r) ==
    [filters |-> r.filters, group_by |-> r.group_by, page |-> r.page,
     page_size |-> r.page_size]

ReportRequests ==
    [user : {"seller1"}, filters : {[zone |-> {}, user |-> {}]},
     group_by : {"zone"}, page : {1}, page_size : {1},
     force_refresh : BOOLEAN]
    \cup [user : {"seller1"}, filters : {[zone |-> {"ZA"}, user |-> {}]},
          group_by : {"user"}, page : {1, 2}, page_size : {2},
          force_refresh : {FALSE}]

\* reports_summary and get_summary_report, lines 77-83: the request is
\* received and the cache is asked; a cached payload is returned as it is.
ReportSummary(w, r) ==
    /\ Free(w)
    /\ \A v \in Workers : Free(v) => w <= v
    /\ report_count < MaxReports
    /\ HasPermission(r)
    /\ report_count' = report_count + 1
    /\ req' = [req EXCEPT ![w] = r]
    /\ tid' = [tid EXCEPT ![w] = 0]
    /\ asked' = [asked EXCEPT ![w] = Committed]
    /\ IF ~r.force_refresh /\ ReportKey(r) \in DOMAIN cache
       THEN /\ report' = [report EXCEPT ![w] = cache[ReportKey(r)]]
            /\ Return(w, "report")
       ELSE /\ report' = [report EXCEPT ![w] = NoReport]
            /\ pc' = [pc EXCEPT ![w] = "query_groups"]
            /\ outcome' = [outcome EXCEPT ![w] = "none"]
            /\ UNCHANGED <<now, today, idx, total>>
    /\ UNCHANGED <<clock, tickets, titems, submitted, cache, cache_key,
                   current_count, granted>>

\* _generate_summary_report, lines 142-162: the grouped query is run and
\* the asked page is cut from it.
QueryGroups(w) ==
    /\ pc[w] = "query_groups"
    /\ LET result == Result(tickets, req[w].filters, req[w].group_by) IN
       report' = [report EXCEPT
          ![w].summary = Paged(result, req[w].page, req[w].page_size),
          ![w].pagination =
              [page |-> req[w].page, page_size |-> req[w].page_size,
               total_items |-> Len(result),
               total_pages |-> TotalPages(Len(result), req[w].page_size)]]
    /\ pc' = [pc EXCEPT ![w] = "query_totals"]
    /\ UNCHANGED <<clock, tickets, titems, req, now, today, idx, tid, total,
                   outcome, submitted, cache, asked, cache_key,
                   current_count, granted, report_count>>

\* _generate_summary_report, lines 165-169: the totals are a second query.
QueryTotals(w) ==
    /\ pc[w] = "query_totals"
    /\ report' = [report EXCEPT ![w].totals = Totals(tickets, req[w].filters)]
    /\ pc' = [pc EXCEPT ![w] = "cache_set"]
    /\ UNCHANGED <<clock, tickets, titems, req, now, today, idx, tid, total,
                   outcome, submitted, cache, asked, cache_key,
                   current_count, granted, report_count>>

\* get_summary_report, lines 92-95: the payload is cached and returned.
StoreReport(w) ==
    /\ pc[w] = "cache_set"
    /\ cache' = CacheSet(cache, ReportKey(req[w]), report[w])
    /\ Return(w, "report")
    /\ UNCHANGED <<clock, tickets, titems, req, tid, submitted, report,
                   asked, cache_key, current_count, granted, report_count>>

\* The server clock advances.  An instant is longer than the timeouts of
\* the cached reports (REPORTS_CACHE_TIMEOUT, 600 s), so every cached
\* report has expired at the next instant.
TickExpire ==
    /\ clock < MaxTime
    /\ clock' = clock + 1
    /\ cache' = [k \in {} |-> 0]
    /\ UNCHANGED <<tickets, titems, pc, req, now, today, idx, tid, total,
                   outcome, submitted, report, asked, cache_key,
                   current_count, granted, report_count>>

\* Reports and submissions served one at a time: a report is asked only
\* when no other request is being served.
ReportAlone(w, r) ==
    /\ \A v \in Workers : Free(v)
    /\ ReportSummary(w, r)

NextReport ==
    \/ TickExpire
    \/ \E w \in Workers, r \in BodyUserRequests : SubmitAlone(w, r)
    \/ \E w \in Workers, r \in ReportRequests : ReportAlone(w, r)
    \/ \E w \in Workers : CheckSchedule(w)
    \/ \E w \in Workers : ReadLimits(w)
    \/ \E w \in Workers : ValidateItem(w)
    \/ \E w \in Workers : CreateTicket(w)
    \/ \E w \in Workers : CreateItem(w)
    \/ \E w \in Workers : SaveTotal(w)
    \/ \E w \in Workers : QueryGroups(w)
    \/ \E w \in Workers : QueryTotals(w)
    \/ \E w \in Workers : StoreReport(w)

SpecReport == Init /\ [][NextReport]_vars

TypeOK ==
    /\ clock \in 0..MaxTime
    /\ submitted \in 0..MaxSubmissions
    /\ \A w \in Workers :
          req[w] \in Requests \cup FormatRequests \cup KeyRequests
                     \cup BodyUserRequests \cup AnonymousRequests
                     \cup UpdateRequests \cup PreviewRequests
                     \cup ReportRequests
    /\ report_count \in 0..MaxReports

\* ---------------------------------------------------------------- claims
Days == 0..(MaxTime \div TicksPerDay)

Done(w) == pc[w] = "done"

Failed == {"field_error", "no_schedule", "past_cutoff", "invalid_number",
           "limit_exceeded", "integrity_error"}

\* The 400 answers: serializers.ValidationError raised by the field
\* validation or by validate.
BusinessRejections == Failed \ {"integrity_error"}

HasScheduleRow(zone, draw_type) ==
    \E s \in DrawSchedule : s.zone = zone /\ s.draw_type = draw_type

HasActiveRow(zone, draw_type) ==
    \E s \in DrawSchedule :
        s.zone = zone /\ s.draw_type = draw_type /\ s.is_active

\* The format rule of the specification: every item has a two-digit number
\* and an explicit positive piece count.
WellFormed(r) ==
    \A i \in 1..Len(r.items) :
        /\ Len(r.items[i].number) = 2
        /\ \A k \in 1..2 : r.items[i].number[k] \in Digits
        /\ "pieces" \in DOMAIN r.items[i]
        /\ r.items[i].pieces >= 1

HasDuplicate(r) ==
    \E i, j \in 1..Len(r.items) :
        i # j /\ r.items[i].number = r.items[j].number

\* C1: for every (zone, draw_type, number, local day) with a NumberLimit,
\* the pieces of the committed TicketItems of that key never sum to more
\* than max_pieces, whatever the interleaving of the submissions.
C1_CapNeverExceeded ==
    \A l \in NumberLimit, d \in Days :
        Sold(tickets, titems, l.zone, l.draw_type, d, l.number) <= l.max_pieces

\* C2: in every state the ledger can be observed in, each Ticket carries
\* all the items of its submission and a total_pieces equal to the sum of
\* its items' pieces.
C2_TicketAtomic ==
    \A t \in 1..Len(tickets) :
        /\ tickets[t].total_pieces = SumPieces(ItemsOf(titems, t))
        /\ \A w \in Workers :
              tid[w] = t => Cardinality(ItemsOf(titems, t)) = Len(req[w].items)

\* C3: a submission that ended without being accepted has added no Ticket
\* row and no TicketItem row.
C3_RejectionLeavesNothing ==
    \A w \in Workers :
        outcome[w] \in Failed =>
            /\ tid[w] = 0
            /\ \A i \in titems : i.ticket # tid[w]

C5_TotalIsSumOfItems ==
    \A w \in Workers :
        outcome[w] = "created" =>
            /\ tid[w] \in 1..Len(tickets)
            /\ Cardinality(ItemsOf(titems, tid[w])) = Len(req[w].items)
            /\ \A i \in 1..Len(req[w].items) :
                  \E row \in ItemsOf(titems, tid[w]) :
                      row.number = req[w].items[i].number
            /\ tickets[tid[w]].total_pieces = SumPieces(ItemsOf(titems, tid[w]))

\* C5 witness: items [("34",2),("12",3)] accepted with total 5.
C5_Witness ==
    \E w \in Workers :
        /\ outcome[w] = "created"
        /\ req[w].items = << It(N34, 2), It(N12, 3) >>
        /\ tid[w] \in 1..Len(tickets)
        /\ tickets[tid[w]].total_pieces = 5

\* C6: with an active schedule, the cutoff check rejects a submission when
\* the local time of day is at or after cutoff_time and lets it pass when it
\* is strictly earlier.
C6_CutoffInclusive ==
    [][\A w \in Workers, s \in DrawSchedule :
          ( /\ pc[w] = "schedule" /\ pc'[w] # "schedule"
            /\ s.zone = req[w].zone /\ s.draw_type = req[w].draw_type
            /\ s.is_active ) =>
             /\ LocalTime(clock) >= s.cutoff_time =>
                   outcome'[w] = "past_cutoff" /\ pc'[w] = "done"
             /\ LocalTime(clock) < s.cutoff_time =>
                   outcome'[w] = "none" /\ pc'[w] = "limits"]_vars

\* C6 witness: a submission refused at exactly the cutoff.
C6_Witness ==
    \E w \in Workers, s \in DrawSchedule :
        /\ outcome[w] = "past_cutoff"
        /\ s.zone = req[w].zone /\ s.draw_type = req[w].draw_type
        /\ s.is_active
        /\ LocalTime(clock) = s.cutoff_time

C9_InactiveDoesNotBlock ==
    \A w \in Workers :
        ( /\ Done(w)
          /\ HasScheduleRow(req[w].zone, req[w].draw_type)
          /\ ~HasActiveRow(req[w].zone, req[w].draw_type)
          /\ WellFormed(req[w])
          /\ ~HasDuplicate(req[w])
          /\ \A i \in 1..Len(req[w].items), l \in NumberLimit :
                ( /\ l.zone = req[w].zone /\ l.draw_type = req[w].draw_type
                  /\ l.number = req[w].items[i].number ) =>
                   req[w].items[i].pieces <= l.max_pieces ) =>
            outcome[w] = "created"

\* C10: a submission in which a number appears in two or more items always
\* ends as a business rejection and leaves no Ticket and no TicketItem.
C10_DuplicateRejected ==
    \A w \in Workers :
        (Done(w) /\ HasDuplicate(req[w])) =>
            /\ outcome[w] \in BusinessRejections
            /\ tid[w] = 0

\* C11: a submission whose items list is empty ends as a business rejection
\* and persists nothing, so every Ticket of a returned submission has at
\* least one TicketItem.
C11_EmptyRejected ==
    \A w \in Workers :
        (Done(w) /\ Len(req[w].items) = 0) =>
            /\ outcome[w] \in BusinessRejections
            /\ tid[w] = 0

\* C12: a submission with an item whose pieces is zero or negative ends as a
\* business rejection, so every committed TicketItem has pieces >= 1.
C12_PiecesPositive ==
    /\ \A w \in Workers :
          ( /\ Done(w)
            /\ \E i \in 1..Len(req[w].items) :
                  /\ "pieces" \in DOMAIN req[w].items[i]
                  /\ req[w].items[i].pieces <= 0 ) =>
             outcome[w] \in BusinessRejections
    /\ \A row \in titems : row.pieces >= 1

\* A number of exactly two decimal digits, "00".."99".
TwoDecimalDigits(number) ==
    Len(number) = 2 /\ \A k \in 1..2 : number[k] \in Digits

\* C13: a submission with an item whose number is not exactly two decimal
\* digits ends as a business rejection, so every committed TicketItem.number
\* is in "00".."99".
C13_NumbersTwoDecimalDigits ==
    /\ \A w \in Workers :
          ( /\ Done(w)
            /\ \E i \in 1..Len(req[w].items) :
                  ~TwoDecimalDigits(req[w].items[i].number) ) =>
             outcome[w] \in BusinessRejections
    /\ \A row \in titems : TwoDecimalDigits(row.number)

C14_FieldsPass(r) ==
    \A i \in 1..Len(r.items) :
        /\ Len(r.items[i].number) \in 1..2
        /\ ("pieces" \in DOMAIN r.items[i] => r.items[i].pieces >= 0)

\* The positions of the items whose number validate refuses.
C14_BadNumbers(r) ==
    { i \in 1..Len(r.items) :
        Len(r.items[i].number) # 2
          \/ \E k \in 1..Len(r.items[i].number) :
                r.items[i].number[k] \notin IsDigitChars }

\* The positions of the items that exceed their limit whatever has been sold.
C14_SureExcess(r) ==
    { i \in 1..Len(r.items) :
        \E l \in NumberLimit :
            /\ l.zone = r.zone /\ l.draw_type = r.draw_type
            /\ l.number = r.items[i].number
            /\ "pieces" \in DOMAIN r.items[i]
            /\ r.items[i].pieces > l.max_pieces }

Numbers == {N12, N34, N77}

\* C15: the accumulated total is kept per (zone, draw_type, number): a step
\* that commits items only for another zone, another draw type or another
\* number leaves sold_today of (zone, draw_type, number) as it was.
C15_LimitKeyFrame ==
    [][\A z \in Zones, d \in DrawTypes, n \in Numbers, day \in Days :
          (\A row \in titems' \ titems :
              ~ ( /\ tickets'[row.ticket].zone = z
                  /\ tickets'[row.ticket].draw_type = d
                  /\ row.number = n )) =>
             Sold(tickets', titems', z, d, day, n)
               = Sold(tickets, titems, z, d, day, n)]_vars

\* C15 witness: 6 pieces of "12" committed in ZD (limit 10) and 3 pieces of
\* "12" accepted in ZA (limit 5) on the same day.
C15_Witness ==
    \E w \in Workers, day \in Days :
        /\ outcome[w] = "created"
        /\ req[w].zone = "ZA" /\ req[w].draw_type = "D1"
        /\ req[w].items = << It(N12, 3) >>
        /\ Sold(tickets, titems, "ZA", "D1", day, N12) = 3
        /\ Sold(tickets, titems, "ZD", "D1", day, N12) = 6

\* The committed TicketItems of (zone, draw_type, number) whose ticket was
\* created on local day `day`.
KeyDayRows(z, d, n, day) ==
    { row \in titems :
        /\ row.number = n
        /\ tickets[row.ticket].zone = z
        /\ tickets[row.ticket].draw_type = d
        /\ tickets[row.ticket].created_at \div TicksPerDay = day }

GivenPieces(item) == IF "pieces" \in DOMAIN item THEN item.pieces ELSE 0

\* C16: sold_today counts only the items of tickets created on the local
\* date validate took as today: when those plus the item's pieces fit under
\* max_pieces the item is not refused for the limit, whatever was sold on
\* other days.
C16_TodayOnly ==
    [][\A w \in Workers, l \in NumberLimit :
          ( /\ pc[w] = "items"
            /\ l.zone = req[w].zone /\ l.draw_type = req[w].draw_type
            /\ l.number = req[w].items[idx[w]].number
            /\ SumPieces(KeyDayRows(l.zone, l.draw_type, l.number, today[w]))
                 + GivenPieces(req[w].items[idx[w]]) <= l.max_pieces ) =>
             outcome'[w] # "limit_exceeded"]_vars

\* C16 witness: 3 pieces of "12" sold on day 0 and a further 3 accepted on
\* day 1 under a limit of 5.
C16_Witness ==
    \E w \in Workers :
        /\ outcome[w] = "created"
        /\ req[w].items = << It(N12, 3) >>
        /\ clock \div TicksPerDay = 1
        /\ SumPieces(KeyDayRows("ZA", "D1", N12, 0)) = 3
        /\ SumPieces(KeyDayRows("ZA", "D1", N12, 1)) = 3

\* C17: an item whose number has no NumberLimit row for the submission's
\* (zone, draw_type) is never refused for the accumulated limit, whatever
\* its piece count and whatever has been sold for that number.
C17_NoRowNoCap ==
    [][\A w \in Workers :
          ( /\ pc[w] = "items"
            /\ ~ \E l \in NumberLimit :
                    /\ l.zone = req[w].zone
                    /\ l.draw_type = req[w].draw_type
                    /\ l.number = req[w].items[idx[w]].number ) =>
             outcome'[w] # "limit_exceeded"]_vars

\* C17 witness: 9 pieces of "34", which has no limit, accepted when 9 were
\* already sold that day.
C17_Witness ==
    \E w \in Workers, day \in Days :
        /\ outcome[w] = "created"
        /\ req[w].items = << It(N34, 9) >>
        /\ SumPieces(KeyDayRows("ZA", "D1", N34, day)) = 18

C19_NoSpuriousLimitRejection ==
    [][ /\ \A w \in Workers :
             ( pc[w] = "items" /\ outcome'[w] = "limit_exceeded" ) =>
                \E l \in NumberLimit :
                    /\ l.zone = req[w].zone
                    /\ l.draw_type = req[w].draw_type
                    /\ l.number = req[w].items[idx[w]].number
                    /\ SumPieces(KeyDayRows(l.zone, l.draw_type, l.number,
                                            today[w]))
                         + GivenPieces(req[w].items[idx[w]]) > l.max_pieces
        /\ \A z \in Zones, d \in DrawTypes, n \in Numbers, day \in Days :
             \A row \in KeyDayRows(z, d, n, day) :
                 /\ row \in titems'
                 /\ tickets'[row.ticket].zone = z
                 /\ tickets'[row.ticket].draw_type = d
                 /\ tickets'[row.ticket].created_at \div TicksPerDay = day ]_vars

\* C19 witness: two submissions in flight at once, one of them refused for
\* the limit of "12" while pieces of "12" are committed.
C19_Witness ==
    \E w, v \in Workers :
        /\ w # v
        /\ outcome[w] = "limit_exceeded"
        /\ pc[v] \in {"insert", "save"}
        /\ SumPieces(KeyDayRows("ZA", "D1", N12, 0)) > 0

\* C23: in every ledger state no Ticket has two TicketItems with the same
\* number.
C23_NumbersUniquePerTicket ==
    \A a \in titems, b \in titems :
        (a.ticket = b.ticket /\ a.number = b.number) => a = b

\* C23 witness: the submission [("12",1),("12",2)] has met the unique
\* constraint and its ticket holds the one row ("12",1).
C23_Witness ==
    \E w \in Workers :
        /\ outcome[w] = "integrity_error"
        /\ req[w].items = << It(N12, 1), It(N12, 2) >>
        /\ ItemsOf(titems, tid[w]) =
               {[ticket |-> tid[w], number |-> N12, pieces |-> 1]}

\* C26: for every item of an accepted submission the (number, pieces) pair
\* validate compared against the cap, with pieces read as 0 when absent, is
\* the pair create persisted for that item.
C26_ValidatedIsPersisted ==
    \A w \in Workers :
        outcome[w] = "created" =>
            \A i \in 1..Len(req[w].items) :
                \E row \in ItemsOf(titems, tid[w]) :
                    /\ row.number = req[w].items[i].number
                    /\ row.pieces = RawPieces(req[w].items[i])

\* C28: the created_at of every committed Ticket, as local time of day, is
\* strictly earlier than the cutoff_time of the active schedule of its
\* (zone, draw_type).
C28_CreatedBeforeCutoff ==
    \A t \in 1..Len(tickets) :
        \A s \in DrawSchedule :
            ( /\ s.zone = tickets[t].zone
              /\ s.draw_type = tickets[t].draw_type
              /\ s.is_active ) =>
                LocalTime(tickets[t].created_at) < s.cutoff_time

\* C29: the day validate took as today is the created_at date of the
\* ticket the same submission commits.
C29_TodayIsCreatedDate ==
    \A w \in Workers :
        pc[w] \in {"insert", "save"} =>
            LocalDate(tickets[tid[w]].created_at) = today[w]

\* C21: once a ticket has been created, no later operation of the ticket
\* API (further submissions, PUT/PATCH on the ticket, previews) changes its
\* total_pieces or its set of items.
C21_TicketImmutable ==
    [][\A t \in Committed :
          /\ tickets'[t].total_pieces = tickets[t].total_pieces
          /\ ItemsOf(titems', t) = ItemsOf(titems, t)]_vars

\* C22: every committed Ticket has a seller, the authenticated caller of
\* the submission that created it and not the one named in the request
\* body, and no later operation changes a ticket's seller or created_at.
C22_SellerIsCaller ==
    [][ /\ \A t \in 1..Len(tickets) :
             /\ tickets'[t].user = tickets[t].user
             /\ tickets'[t].created_at = tickets[t].created_at
        /\ \A w \in Workers :
             Len(tickets') > Len(tickets) /\ tid'[w] # tid[w] =>
                /\ tickets'[tid'[w]].user = req[w].user
                /\ tickets'[tid'[w]].user # Anonymous ]_vars

\* C22 witness: the ticket of seller1, submitted with seller2 named in the
\* body, after a PATCH by seller2 has been applied to it.
C22_Witness ==
    \E w \in Workers :
        /\ outcome[w] = "updated"
        /\ "body_user" \in DOMAIN req[w]
        /\ tickets[tid[w]].user = "seller1"

\* C27: after a ticket is committed its zone and draw_type are never
\* changed by any TicketViewSet operation, PUT and PATCH included.
C27_ZoneDrawFrozen ==
    [][\A t \in Committed :
          /\ tickets'[t].zone = tickets[t].zone
          /\ tickets'[t].draw_type = tickets[t].draw_type]_vars

\* C30: for each identifier and window, is_allowed answers allowed for at
\* most max_requests calls, also when calls for the same identifier run
\* concurrently; once max_requests calls have been allowed every further
\* call of that window is denied; a denied call leaves the counter as it
\* was.
C30_AtMostMaxRequests ==
    [][ /\ \A k \in RateKeys : granted'[k] <= MaxRequests
        /\ \A w \in Workers :
             (Free(w) /\ pc'[w] = "set_count") =>
                granted[cache_key'[w]] < MaxRequests
        /\ ( /\ submitted' # submitted
              /\ \A w \in Workers :
                    pc'[w] = "set_count" => pc[w] = "set_count" ) =>
             cache' = cache ]_vars

\* Sum of a field over the rows of one page.
RECURSIVE SumRows(_, _)
SumRows(rows, field) ==
    IF rows = << >> THEN 0
    ELSE Head(rows)[field] + SumRows(Tail(rows), field)

\* Sum of a field over the rows of pages 1..p.
RECURSIVE SumPages(_, _, _, _)
SumPages(result, page_size, p, field) ==
    IF p = 0 THEN 0
    ELSE SumRows(Paged(result, p, page_size), field)
           + SumPages(result, page_size, p - 1, field)

NoFilters == [zone |-> {}, user |-> {}]

FirstFree(w) == Free(w) /\ \A v \in Workers : Free(v) => w <= v

\* The payload counts every ticket of ids that matches the filters of r.
Counts(payload, ids, r) ==
    LET m == { t \in ids : Matches(tickets[t], r.filters) } IN
    /\ payload.totals.total_tickets >= Cardinality(m)
    /\ payload.totals.total_pieces >= SumTotalPieces(tickets, m)

\* C25: a summary report asked after a ticket has been committed counts
\* that ticket in totals.total_tickets and totals.total_pieces when its
\* filters match it, whether the answer comes from the cache or is
\* generated.
C25_ReportCountsCommitted ==
    [][\A w \in Workers :
          /\ ( /\ FirstFree(w)
               /\ report_count' # report_count
               /\ pc'[w] = "done" ) =>
                 Counts(report'[w], Committed, req'[w])
          /\ (pc[w] = "cache_set" /\ pc'[w] = "done") =>
                 Counts(report'[w], asked[w], req[w])]_vars
====
